---- MODULE Spec2Model ----
(***************************************************************************)
(* A model of src/Files/js/app.js (ProjectFourModule): the frame driver,   *)
(* the sidebar handlers and the render pass of the WebGL scene.            *)
(*                                                                         *)
(* Units.  Colour channels and scale factors are integers in hundredths    *)
(* (0.35 is 35), sceneScale is kept in tenths (1 is 10, one wheel notch is *)
(* 1), angles are whole degrees, translations are whole units.             *)
(* A matrix is the sequence of the transformations composed into it, in    *)
(* the order the code right-multiplies them, starting from the view matrix *)
(* of the TrackballRotator.                                                *)
(***************************************************************************)
EXTENDS Integers, Sequences, FiniteSets, TLC

\* ------------------------------------------------------------------ bounds

\* The frame counter is capped: no frame is started once it reached MaxFrame.
MaxFrame == 2

\* At most this many requestAnimationFrame callbacks are outstanding.
MaxPending == 1

\* The user operates the checkboxes of the first MaxOperated shape kinds of
\* OperatedOrder and of both lights.
MaxOperated == 1

\* The wheel moves sceneScale at most this many notches away from 1.
MaxZoomSteps == 1

\* The frame cap of the end-to-end run (start, ten ticks, stop, reset).
MaxFrameRun == 12

\* The frame cap and the most outstanding callbacks of the frame driver when
\* start may be pressed while a callback of an earlier run is outstanding.
MaxFrameLoop == 6

MaxLoops == 2

\* The wheel moves sceneScale at most this many notches below 1 where the
\* zoom is followed down.
MaxZoomOut == 11

\* The events by which the user changes the scene state in a run whose
\* canvas is followed.
MaxChanges == 2

\* The pushes of one exercise of the transform stack, and the transformations
\* composed into the matrix during it.
MaxPushes == 3

MaxComposed == 2

\* The most lights a light configuration declares.
MaxLights == 3

\* ------------------------------------------------------------------- enums

\* inaccessible.Colors
WHITE == <<100, 100, 100, 100>>
BLACK == <<0, 0, 0, 100>>
GRAY == <<10, 10, 10, 100>>
CHARCOAL == <<35, 35, 35, 100>>
BROWN == <<50, 30, 10, 100>>
YELLOW == <<50, 50, 0, 100>>
GOLD == <<50, 50, 20, 100>>

\* inaccessible.Text
START_BUTTON_ERROR == "Animation is already running."
STOP_BUTTON_ERROR == "Animation is not currently running."

\* A position uniform: the vector written, and the matrix it was transformed
\* by (eye = TRUE) or nothing when the raw vector was written (eye = FALSE).
RawPosition(v) == [v |-> v, mv |-> <<>>, eye |-> FALSE]

\* inaccessible.DefaultUniforms
DefaultMaterial ==
  [diffuseColor |-> BLACK, specularColor |-> GRAY, emissiveColor |-> BLACK,
   specularExponent |-> 16]

DefaultLights ==
  [enabled |-> 1, position |-> <<0, 0, 1, 0>>, color |-> WHITE,
   attenuation |-> 0]

\* The key order of DefaultUniforms.MATERIAL and DefaultUniforms.LIGHTS.
MaterialKeys == <<"diffuseColor", "specularColor", "emissiveColor", "specularExponent">>

LightsKeys == <<"enabled", "position", "color", "attenuation">>

\* ------------------------------------------------------------- data arrays

\* A transformation composed into a matrix.
Xf(f, a, v) == [f |-> f, a |-> a, v |-> v]

\* One entry of sceneObjectsData; rotate is the rotate map in key order.
Shape(type, color, wire, texture, specColor, specExp, translate, scale, rotate) ==
  [shapeType |-> type, shapeColor |-> color, isWireFrame |-> wire,
   texture |-> texture,
   materialUniforms |-> [specularColor |-> specColor, specularExponent |-> specExp],
   transformations |-> [translate |-> translate, scale |-> scale, rotate |-> rotate]]

\* The texture property of an entry that declares none.
NoTexture == "none"

sceneObjectsData ==
  << Shape("Sierpinski", BROWN, FALSE, NoTexture, WHITE, 32, <<0, 0, -1>>,
           <<50, 50, 50>>, << <<"x", -9>>, <<"y", 2>> >>),
     Shape("Icosahedron", BROWN, FALSE, NoTexture, WHITE, 16, <<1, 0, 0>>,
           <<30, 30, 30>>, << <<"x", 0>>, <<"y", 5>>, <<"z", -1>> >>),
     Shape("Dodecahedron", BROWN, FALSE, NoTexture, WHITE, 16, <<-1, 0, 0>>,
           <<30, 30, 30>>, << <<"x", -2>>, <<"y", 4>>, <<"z", -2>> >>),
     Shape("Octahedron", BROWN, FALSE, NoTexture, GRAY, 16, <<0, 0, 1>>,
           <<30, 30, 30>>, << <<"x", 0>>, <<"y", 7>> >>),
     Shape("Pyramid", GOLD, FALSE, NoTexture, BLACK, 16, <<3, 0, -3>>,
           <<50, 50, 50>>, << <<"x", -5>>, <<"y", 3>> >>),
     Shape("Cylinder", GOLD, TRUE, NoTexture, BLACK, 16, <<3, 0, 3>>,
           <<30, 20, 30>>, << <<"x", -5>>, <<"y", 5>> >>),
     Shape("Cube", GOLD, FALSE, NoTexture, GRAY, 32, <<-3, 0, 3>>,
           <<25, 25, 25>>, << <<"x", -8>>, <<"y", 5>> >>),
     Shape("Tetrahedron", GOLD, FALSE, NoTexture, GRAY, 16, <<-3, 0, -3>>,
           <<30, 30, 30>>, << <<"x", -2>>, <<"y", 7>> >>),
     Shape("Sphere", BROWN, FALSE, "textures/jupiter.jpg", WHITE, 32, <<0, -2, 2>>,
           <<30, 30, 30>>, << <<"x", 0>>, <<"y", 5>> >>),
     Shape("Ring", BROWN, FALSE, "textures/sun.jpg", WHITE, 32, <<0, 2, -2>>,
           <<100, 100, 100>>, << <<"x", -1>>, <<"y", 2>>, <<"z", 5>> >>) >>

\* The shape kinds a template is built for (one per polyhedron of the scene).
Kinds == {sceneObjectsData[i].shapeType : i \in 1..Len(sceneObjectsData)}

\* The indices of the lights, as in the shader's lights[0..1].
LightIds == {0, 1}

\* lightSourceData[i] with its mutable enabled flag taken from `enabled`.
\* The sun (0) has a body and a position; the viewpoint light (1) has neither.
\* An index beyond 1 stands for a further light declared like the viewpoint
\* light, where a configuration of more than two lights is examined.
lightSourceData(i, enabled) ==
  IF i = 0
  THEN [lightText |-> "SunLight", shapeType |-> "Sphere", shapeColor |-> WHITE,
        texture |-> "textures/sun.jpg",
        materialUniforms |-> [emissiveColor |-> YELLOW],
        lightsUniforms |-> [enabled |-> enabled[0], position |-> <<0, 0, 0, 1>>,
                            color |-> WHITE, attenuation |-> 25],
        transformations |-> [translate |-> <<0, 0, 0>>, scale |-> <<15, 15, 15>>]]
  ELSE [lightText |-> "ViewpointLight",
        lightsUniforms |-> [enabled |-> enabled[1], color |-> CHARCOAL]]

\* The keys of a light's lightsUniforms, transformations and materialUniforms
\* objects in their declaration (for-in) order; empty when the object is absent.
LightsUniformKeys(i) ==
  IF i = 0 THEN <<"enabled", "position", "color", "attenuation">>
  ELSE <<"enabled", "color">>

LightTransformKeys(i) == IF i = 0 THEN <<"translate", "scale">> ELSE <<>>

LightMaterialKeys(i) == IF i = 0 THEN <<"emissiveColor">> ELSE <<>>

\* const DEBUG
DEBUG == FALSE

\* inaccessible.debugSceneObjectsData
debugSceneObjectsData ==
  << Shape("Sierpinski", WHITE, FALSE, NoTexture, WHITE, 32, <<0, 0, 0>>,
           <<50, 50, 50>>, << <<"x", 5>> >>) >>

\* ------------------------------------------------------- uniforms (GL state)

\* paramCounter = null
NoCounter == -1

\* The properties whose values are arrays (inaccessible.isArray(value)).
ArrayProperties ==
  {"position", "color", "diffuseColor", "specularColor", "emissiveColor"}

\* Array.prototype.slice(0, n)
Slice(value, n) == SubSeq(value, 1, IF n < Len(value) THEN n ELSE Len(value))

\* gl.uniform3f(location, ...value): the first three spread arguments.
Uniform3f(value) == Slice(value, 3)

\* gl.uniform3f called with fewer than its three values raises a TypeError
\* and writes nothing.
Uniform3fRaises(args) == Len(args) < 3

\* inaccessible.handleDefinitionOfUniform on the uniforms u.  The shader
\* declares lights[2]: the location of a uniform of a light beyond it is null
\* (handleUniformLocationAcquisition), and gl.uniform* on a null location
\* does nothing and raises nothing.
HandleDefinitionOfUniform(u, paramDataObject, paramProperty, paramCounter) ==
  LET value == paramDataObject[paramProperty] IN
  IF paramCounter # NoCounter /\ paramCounter \notin DOMAIN u.u_lights
  THEN u
  ELSE IF paramCounter # NoCounter
  THEN IF paramProperty \in ArrayProperties
       THEN IF paramProperty = "position"
            THEN [u EXCEPT !.u_lights[paramCounter].position = RawPosition(value)]
            ELSE IF Uniform3fRaises(Slice(value, 3)) THEN u
            ELSE [u EXCEPT !.u_lights[paramCounter][paramProperty] =
                             Uniform3f(Slice(value, 3))]
       ELSE [u EXCEPT !.u_lights[paramCounter][paramProperty] = value]
  ELSE IF paramProperty \in ArrayProperties
       THEN IF paramProperty = "diffuseColor"
            THEN [u EXCEPT !.u_material.diffuseColor = value]
            ELSE IF Uniform3fRaises(Slice(value, Len(value) - 1)) THEN u
            ELSE [u EXCEPT !.u_material[paramProperty] =
                             Uniform3f(Slice(value, Len(value) - 1))]
       ELSE [u EXCEPT !.u_material[paramProperty] = value]

\* handleDefinitionOfUniform for each key of `keys`, in order.
RECURSIVE DefineUniforms(_, _, _, _)
DefineUniforms(u, paramDataObject, keys, paramCounter) ==
  IF keys = <<>> THEN u
  ELSE DefineUniforms(
         HandleDefinitionOfUniform(u, paramDataObject, Head(keys), paramCounter),
         paramDataObject, Tail(keys), paramCounter)

\* What a texture object holds: the 1x1 colour uploaded while its image
\* loads, or the image loaded from an address.
ColorTexture(c) == [kind |-> "color", color |-> c, image |-> ""]

ImageTexture(address) == [kind |-> "image", color |-> <<>>, image |-> address]

\* No texture object is bound to TEXTURE_2D.
NoBoundTexture == [kind |-> "none", color |-> <<>>, image |-> ""]

\* The uniforms of a freshly linked program: every uniform is 0.  texture2D
\* is what the texture object bound to TEXTURE_2D holds.
ZeroLight == [enabled |-> 0, position |-> RawPosition(<<0, 0, 0, 0>>),
              color |-> <<0, 0, 0>>, attenuation |-> 0]

ZeroUniforms ==
  [u_lights |-> [i \in LightIds |-> ZeroLight],
   u_material |-> [diffuseColor |-> <<0, 0, 0, 0>>, specularColor |-> <<0, 0, 0>>,
                   emissiveColor |-> <<0, 0, 0>>, specularExponent |-> 0],
   u_useTexture |-> 0, texture2D |-> NoBoundTexture]

\* inaccessible.initGL: the material defaults, then the defaults of each light.
InitGL ==
  LET m == DefineUniforms(ZeroUniforms, DefaultMaterial, MaterialKeys, NoCounter)
      l0 == DefineUniforms(m, DefaultLights, LightsKeys, 0)
  IN DefineUniforms(l0, DefaultLights, LightsKeys, 1)

\* initGL over a lightSourceData of n entries: the defaults of the lights
\* from entry i on.
RECURSIVE DefaultLightsFrom(_, _, _)
DefaultLightsFrom(u, i, n) ==
  IF i >= n THEN u
  ELSE DefaultLightsFrom(DefineUniforms(u, DefaultLights, LightsKeys, i), i + 1, n)

InitGLWith(n) ==
  DefaultLightsFrom(
    DefineUniforms(ZeroUniforms, DefaultMaterial, MaterialKeys, NoCounter), 0, n)

\* ------------------------------------------------------------ transform stack

\* What Array.prototype.pop() returns on an empty array.
Undefined == << Xf("undefined", 0, <<0, 0, 0>>) >>

\* pushMatrix pushing a new matrix (mat4.create) instead of a clone of modelview.
PushMatrix_Create(ps) == [ps EXCEPT !.matrixStack = Append(@, <<>>), !.pushed = @ + 1]

\* inaccessible.pushMatrix on the pass state ps; pushed and popped count the
\* calls of pushMatrix and popMatrix made in the pass.
PushMatrix(ps) ==
  [ps EXCEPT !.matrixStack = Append(@, ps.modelview), !.pushed = @ + 1]

\* inaccessible.popMatrix on the pass state ps.
PopMatrix(ps) ==
  IF ps.matrixStack = <<>>
  THEN [ps EXCEPT !.modelview = Undefined, !.popped = @ + 1]
  ELSE [ps EXCEPT !.modelview = ps.matrixStack[Len(ps.matrixStack)],
                  !.matrixStack = SubSeq(@, 1, Len(@) - 1),
                  !.popped = @ + 1]

\* mat4[f](modelview, modelview, v) and mat4.rotate*(modelview, modelview, a):
\* the transformation is composed onto the current matrix.
Compose(ps, f, a, v) == [ps EXCEPT !.modelview = Append(@, Xf(f, a, v))]

\* ------------------------------------------------------------------ drawing

\* inaccessible.convertColorToUint8Array
ConvertColorToUint8Array(paramColorArray) ==
  [i \in 1..Len(paramColorArray) |-> (paramColorArray[i] * 255) \div 100]

\* Whether the transformation t leaves the homogeneous vector v where it is:
\* a scaling or rotation of a vector whose x, y, z are 0, a translation of a
\* direction (w = 0) or by the zero vector.
Fixes(t, v) ==
  \/ t.f \in {"scale", "rotate", "rotateX", "rotateY", "rotateZ"}
       /\ SubSeq(v, 1, 3) = <<0, 0, 0>>
  \/ t.f = "translate" /\ (v[4] = 0 \/ t.v = <<0, 0, 0>>)

\* vec4.transformMat4(out, v, m): the product m * v.  The transformations
\* composed last act first; those that fix v are applied, the rest of the
\* product is kept as it is.
RECURSIVE TransformMat4(_, _)
TransformMat4(v, m) ==
  IF m # <<>> /\ Fixes(m[Len(m)], v)
  THEN TransformMat4(v, SubSeq(m, 1, Len(m) - 1))
  ELSE [v |-> v, mv |-> m, eye |-> TRUE]

\* handleLightPositioning writing the position as declared, in world space.
HandleLightPositioning_World(ps, i, paramLightLocation) ==
  [ps EXCEPT !.gl.u_lights[i].position = RawPosition(paramLightLocation)]

\* inaccessible.handleLightPositioning
HandleLightPositioning(ps, i, paramLightLocation) ==
  [ps EXCEPT !.gl.u_lights[i].position =
     TransformMat4(paramLightLocation, ps.modelview)]

\* inaccessible.handleTextureLoading up to image.src = paramAddress: a new
\* texture object is created, bound and given the colour, and the load of the
\* image is started.  `images` holds the addresses with a load in flight,
\* `created` counts the texture objects (and Image objects) created in the pass.
HandleTextureLoading(ps, paramAddress, paramColorTexture) ==
  [ps EXCEPT !.gl.texture2D = ColorTexture(ConvertColorToUint8Array(paramColorTexture)),
             !.images = @ \cup {paramAddress},
             !.created = @ + 1]

\* image.onload of handleTextureLoading on the GL state g: the texture object
\* created for this load is bound and given the image.
ImageOnload(g, paramAddress) == [g EXCEPT !.texture2D = ImageTexture(paramAddress)]

\* handleShapeTemplateRendering leaving the use-texture flag as it is when the
\* instance declares no texture.
HandleShapeTemplateRendering_NoFlag(ps, paramConfig, src, idx) ==
  LET wire == "isWireFrame" \in DOMAIN paramConfig /\ paramConfig.isWireFrame
      textured == "texture" \in DOMAIN paramConfig /\ paramConfig.texture # NoTexture
      pt == IF textured
            THEN HandleTextureLoading([ps EXCEPT !.gl.u_useTexture = 1],
                                      paramConfig.texture, WHITE)
            ELSE [ps EXCEPT !.gl.u_material.diffuseColor = paramConfig.shapeColor]
      g == pt.gl
      call == [kind |-> paramConfig.shapeType, src |-> src, idx |-> idx,
               primitive |-> IF wire THEN "LINE_LOOP" ELSE "TRIANGLES",
               modelview |-> ps.modelview,
               useTexture |-> g.u_useTexture,
               sampled |-> IF g.u_useTexture = 1 THEN g.texture2D ELSE NoBoundTexture,
               diffuse |-> IF g.u_useTexture = 1 THEN <<>> ELSE g.u_material.diffuseColor,
               depth |-> Len(ps.matrixStack),
               created |-> pt.created - ps.created,
               specularColor |-> g.u_material.specularColor,
               specularExponent |-> g.u_material.specularExponent,
               emissiveColor |-> g.u_material.emissiveColor]
  IN [pt EXCEPT !.calls = Append(@, call), !.lit = Append(@, g.u_lights)]

\* inaccessible.handleShapeTemplateRendering: the uniforms it writes and the
\* drawElements call it issues.  The call is recorded with the template it
\* draws (its buffers and count), the primitive, the matrix and the material
\* in effect, and the number of texture objects created for it; `lit` records
\* the lights' uniforms in effect at the same call.
HandleShapeTemplateRendering(ps, paramConfig, src, idx) ==
  LET wire == "isWireFrame" \in DOMAIN paramConfig /\ paramConfig.isWireFrame
      textured == "texture" \in DOMAIN paramConfig /\ paramConfig.texture # NoTexture
      pt == IF textured
            THEN HandleTextureLoading([ps EXCEPT !.gl.u_useTexture = 1],
                                      paramConfig.texture, WHITE)
            ELSE [ps EXCEPT !.gl.u_useTexture = 0,
                            !.gl.u_material.diffuseColor = paramConfig.shapeColor]
      g == pt.gl
      call == [kind |-> paramConfig.shapeType, src |-> src, idx |-> idx,
               primitive |-> IF wire THEN "LINE_LOOP" ELSE "TRIANGLES",
               modelview |-> ps.modelview,
               useTexture |-> g.u_useTexture,
               sampled |-> IF g.u_useTexture = 1 THEN g.texture2D ELSE NoBoundTexture,
               diffuse |-> IF g.u_useTexture = 1 THEN <<>> ELSE g.u_material.diffuseColor,
               depth |-> Len(ps.matrixStack),
               created |-> pt.created - ps.created,
               specularColor |-> g.u_material.specularColor,
               specularExponent |-> g.u_material.specularExponent,
               emissiveColor |-> g.u_material.emissiveColor]
  IN [pt EXCEPT !.calls = Append(@, call), !.lit = Append(@, g.u_lights)]

\* The transformations of a light, composed in key order.
RECURSIVE LightTransformations(_, _, _)
LightTransformations(ps, light, keys) ==
  IF keys = <<>> THEN ps
  ELSE LightTransformations(
         Compose(ps, Head(keys), 0, light.transformations[Head(keys)]),
         light, Tail(keys))

\* The iteration of assembleLights without the reset of the material
\* uniforms after the light's body is drawn.
AssembleLight_NoReset(ps, i, enabled) ==
  LET light == lightSourceData(i, enabled)
      p1 == PushMatrix(ps)
      p2 == [p1 EXCEPT !.gl = DefineUniforms(@, light.lightsUniforms,
                                             LightsUniformKeys(i), i)]
      p3 == LightTransformations(p2, light, LightTransformKeys(i))
      p4 == IF "materialUniforms" \in DOMAIN light
            THEN [p3 EXCEPT !.gl = DefineUniforms(@, light.materialUniforms,
                                                  LightMaterialKeys(i), NoCounter)]
            ELSE p3
      p5 == IF "shapeType" \in DOMAIN light /\ "shapeColor" \in DOMAIN light
            THEN HandleShapeTemplateRendering(
                   HandleLightPositioning(p4, i, light.lightsUniforms.position),
                   light, "light", i)
            ELSE p4
  IN PopMatrix(p5)

\* One iteration of the loop of inaccessible.assembleLights.
AssembleLight(ps, i, enabled) ==
  LET light == lightSourceData(i, enabled)
      p1 == PushMatrix(ps)
      p2 == [p1 EXCEPT !.gl = DefineUniforms(@, light.lightsUniforms,
                                             LightsUniformKeys(i), i)]
      p3 == LightTransformations(p2, light, LightTransformKeys(i))
      p4 == IF "materialUniforms" \in DOMAIN light
            THEN [p3 EXCEPT !.gl = DefineUniforms(@, light.materialUniforms,
                                                  LightMaterialKeys(i), NoCounter)]
            ELSE p3
      p5 == IF "shapeType" \in DOMAIN light /\ "shapeColor" \in DOMAIN light
            THEN HandleShapeTemplateRendering(
                   HandleLightPositioning(p4, i, light.lightsUniforms.position),
                   light, "light", i)
            ELSE p4
      p6 == IF "materialUniforms" \in DOMAIN light
            THEN [p5 EXCEPT !.gl = DefineUniforms(@, DefaultMaterial,
                                                  LightMaterialKeys(i), NoCounter)]
            ELSE p5
  IN PopMatrix(p6)

\* inaccessible.assembleLights
AssembleLights(ps, enabled) == AssembleLight(AssembleLight(ps, 0, enabled), 1, enabled)

\* The rotations about the object's own axes by the declared value alone,
\* whatever the frame counter.
OwnRotations_NoFrame(ps, rotate, frameNumber) ==
  IF rotate = <<>> THEN ps
  ELSE [ps EXCEPT !.modelview =
          @ \o [j \in 1..Len(rotate) |->
                  Xf(IF rotate[j][1] = "x" THEN "rotateX"
                     ELSE IF rotate[j][1] = "y" THEN "rotateY" ELSE "rotateZ",
                     rotate[j][2], <<0, 0, 0>>)]]

\* The rotations about the object's own axes, in the key order of rotate.
RECURSIVE OwnRotations(_, _, _)
OwnRotations(ps, rotate, frameNumber) ==
  IF rotate = <<>> THEN ps
  ELSE LET key == Head(rotate)[1]
           value == Head(rotate)[2]
           matrixFunctionName ==
             IF key = "x" THEN "rotateX" ELSE IF key = "y" THEN "rotateY" ELSE "rotateZ"
       IN OwnRotations(Compose(ps, matrixFunctionName, frameNumber * value, <<0, 0, 0>>),
                       Tail(rotate), frameNumber)

\* The iteration of assembleScene pushing the matrix before it tests whether
\* the kind is hidden.
AssembleShape_PushFirst(ps, current, i, templates, frameNumber) ==
  LET p1 == PushMatrix(ps) IN
  IF ~templates[current.shapeType].isAnimated THEN p1
  ELSE
    LET p2 == IF ~DEBUG THEN Compose(p1, "rotate", -frameNumber, <<0, 1, 0>>) ELSE p1
        p3 == Compose(p2, "translate", 0, current.transformations.translate)
        p4 == OwnRotations(p3, current.transformations.rotate, frameNumber)
        p5 == Compose(p4, "scale", 0, current.transformations.scale)
        p6 == [p5 EXCEPT !.gl.u_material.specularColor =
                           Uniform3f(current.materialUniforms.specularColor),
                         !.gl.u_material.specularExponent =
                           current.materialUniforms.specularExponent]
        p7 == HandleShapeTemplateRendering(p6, current, "shape", i)
        p8 == [p7 EXCEPT !.gl.u_material.specularColor =
                           Uniform3f(DefaultMaterial.specularColor),
                         !.gl.u_material.specularExponent =
                           DefaultMaterial.specularExponent]
    IN PopMatrix(p8)

\* One iteration of the loop of inaccessible.assembleScene.
AssembleShape(ps, current, i, templates, frameNumber) ==
  IF ~templates[current.shapeType].isAnimated THEN ps
  ELSE
    LET p1 == PushMatrix(ps)
        p2 == IF ~DEBUG THEN Compose(p1, "rotate", -frameNumber, <<0, 1, 0>>) ELSE p1
        p3 == Compose(p2, "translate", 0, current.transformations.translate)
        p4 == OwnRotations(p3, current.transformations.rotate, frameNumber)
        p5 == Compose(p4, "scale", 0, current.transformations.scale)
        p6 == [p5 EXCEPT !.gl.u_material.specularColor =
                           Uniform3f(current.materialUniforms.specularColor),
                         !.gl.u_material.specularExponent =
                           current.materialUniforms.specularExponent]
        p7 == HandleShapeTemplateRendering(p6, current, "shape", i)
        p8 == [p7 EXCEPT !.gl.u_material.specularColor =
                           Uniform3f(DefaultMaterial.specularColor),
                         !.gl.u_material.specularExponent =
                           DefaultMaterial.specularExponent]
    IN PopMatrix(p8)

\* inaccessible.assembleScene, from entry i of dataContents on.  The mat4
\* functions throw on a matrix that is undefined, which ends the pass.
RECURSIVE AssembleSceneFrom(_, _, _, _, _)
AssembleSceneFrom(ps, dataContents, i, templates, frameNumber) ==
  IF i > Len(dataContents) \/ ps.modelview = Undefined THEN ps
  ELSE AssembleSceneFrom(
         AssembleShape(ps, dataContents[i], i, templates, frameNumber),
         dataContents, i + 1, templates, frameNumber)

AssembleScene(ps, templates, frameNumber) ==
  AssembleSceneFrom(ps, IF DEBUG THEN debugSceneObjectsData ELSE sceneObjectsData,
                    1, templates, frameNumber)

\* Utility.DEBUG_ZOOM_DEGREE
DEBUG_ZOOM_DEGREE == 7

\* inaccessible.render up to the call of assembleLights: the pass state over
\* the scene state sc (the fields view, sceneScale, images), with the uniforms
\* u and the matrix stack left by what ran before.
PassStart(sc, u, stack) ==
  LET zoom == IF DEBUG THEN DEBUG_ZOOM_DEGREE * 100 ELSE sc.sceneScale * 10
  IN [gl |-> u, matrixStack |-> stack, images |-> sc.images,
      calls |-> <<>>, lit |-> <<>>, pushed |-> 0, popped |-> 0, created |-> 0,
      modelview |-> << Xf(sc.view, 0, <<0, 0, 0>>),
                       Xf("scale", 0, <<zoom, zoom, zoom>>) >>]

\* The body of inaccessible.render: one full pass over the scene state sc
\* (the fields view, sceneScale, frameNumber, templates, enabled, images).
\* The result holds the uniforms, matrix and stack the pass leaves and the
\* draw calls it issued.
RenderPass(sc, u, stack) ==
  AssembleScene(AssembleLights(PassStart(sc, u, stack), sc.enabled),
                sc.templates, sc.frameNumber)

\* ---------------------------------------------------------------- the state

VARIABLES
  isSceneAnimated,  \* this.isSceneAnimated: TRUE is Running, FALSE is Stopped
  frameNumber,      \* this.frameNumber
  sceneScale,       \* this.sceneScale, in tenths
  templates,        \* this.templates: kind -> [isAnimated]
  enabled,          \* lightSourceData[i].lightsUniforms.enabled
  checked,          \* the checked property of each sidebar checkbox
  view,             \* the orientation held by this.rotator
  pending,          \* requestAnimationFrame callbacks requested and not yet run
  gl,               \* the uniforms and the texture binding of the GL context
  images,           \* the addresses of the images whose load is in flight
  matrixStack,      \* this.matrixStack
  event,            \* the event whose handler ran last
  ops,              \* what that handler did, in order
  resetFrom,        \* after a reset: what the state was before it
  e2e,              \* progress of the run start, ticks, stop, reset from Init
  tog,              \* progress of a visibility toggle off and on while Stopped
  pass              \* the render pass or stack exercise in progress, if any

vars ==
  <<isSceneAnimated, frameNumber, sceneScale, templates, enabled, checked, view,
    pending, gl, images, matrixStack, event, ops, resetFrom, e2e, tog, pass>>

\* The program's own state as one value, so that a handler is a function of it.
Cur ==
  [isSceneAnimated |-> isSceneAnimated, frameNumber |-> frameNumber,
   sceneScale |-> sceneScale, templates |-> templates, enabled |-> enabled,
   checked |-> checked, view |-> view, pending |-> pending, gl |-> gl,
   images |-> images, matrixStack |-> matrixStack, ops |-> <<>>]

\* The names of the sidebar checkboxes of the lights (lightText).
LightNames == {lightSourceData(i, [j \in LightIds |-> 1]).lightText : i \in LightIds}

LightName(i) == lightSourceData(i, [j \in LightIds |-> 1]).lightText

\* One entry of the log of a handler.
Op(name, calls, text) == [op |-> name, calls |-> calls, text |-> text]

Log(s, name, calls, text) == [s EXCEPT !.ops = Append(@, Op(name, calls, text))]

\* window.alert(text)
Alert(s, text) == Log(s, "alert", <<>>, text)

\* window.requestAnimationFrame(this.handleFrame.bind(this))
RequestAnimationFrame(s) == Log([s EXCEPT !.pending = @ + 1], "raf", <<>>, "")

\* inaccessible.render.  this.modelview is assigned at the start of every
\* pass and read nowhere else, so it is kept in the pass and not in the state.
Render(s) ==
  LET r == RenderPass(s, s.gl, s.matrixStack)
  IN Log([s EXCEPT !.gl = r.gl, !.images = r.images,
                   !.matrixStack = r.matrixStack],
         "render", r.calls, "")

\* handleFrame without its test of isSceneAnimated.
HandleFrame_Unconditional(s) ==
  RequestAnimationFrame(
    Render(Log([s EXCEPT !.frameNumber = @ + 1], "inc", <<>>, "")))

\* handleFrame drawing the scene before it advances the frame counter.
HandleFrame_RenderFirst(s) ==
  IF s.isSceneAnimated
  THEN LET r == Render(s)
       IN RequestAnimationFrame(
            Log([r EXCEPT !.frameNumber = @ + 1], "inc", <<>>, ""))
  ELSE s

\* inaccessible.handleFrame
HandleFrame(s) ==
  IF s.isSceneAnimated
  THEN RequestAnimationFrame(
         Render(Log([s EXCEPT !.frameNumber = @ + 1], "inc", <<>>, "")))
  ELSE s

\* handleAnimationStart without its test of isSceneAnimated.
HandleAnimationStart_Unguarded(s) == HandleFrame([s EXCEPT !.isSceneAnimated = TRUE])

\* handleAnimationStart requesting the first frame instead of running it.
HandleAnimationStart_Deferred(s) ==
  IF ~s.isSceneAnimated
  THEN RequestAnimationFrame([s EXCEPT !.isSceneAnimated = TRUE])
  ELSE Alert(s, START_BUTTON_ERROR)

\* inaccessible.handleAnimationStart
HandleAnimationStart(s) ==
  IF ~s.isSceneAnimated
  THEN HandleFrame([s EXCEPT !.isSceneAnimated = TRUE])
  ELSE Alert(s, START_BUTTON_ERROR)

\* handleAnimationStop flipping isSceneAnimated whatever its value.
HandleAnimationStop_Flip(s) == [s EXCEPT !.isSceneAnimated = ~@]

\* inaccessible.handleAnimationStop
HandleAnimationStop(s) ==
  IF s.isSceneAnimated
  THEN [s EXCEPT !.isSceneAnimated = FALSE]
  ELSE Alert(s, STOP_BUTTON_ERROR)

\* The orientation held by the TrackballRotator: the one set by
\* setView(17, [0, 1, 2]), or one the user dragged the scene to.
DefaultView == "default"

Views == {DefaultView, "dragged"}

\* handleReset leaving isSceneAnimated as it is.
HandleReset_KeepsRunning(s) ==
  Render([s EXCEPT !.view = DefaultView,
                   !.frameNumber = 0,
                   !.sceneScale = 10,
                   !.checked = [n \in DOMAIN s.checked |->
                                  IF n \in Kinds THEN TRUE ELSE s.checked[n]],
                   !.templates = [k \in Kinds |-> [s.templates[k] EXCEPT
                                                     !.isAnimated = TRUE]]])

\* handleReset without the reset of the frame counter.
HandleReset_KeepsFrame(s) ==
  Render([s EXCEPT !.view = DefaultView,
                   !.sceneScale = 10,
                   !.isSceneAnimated = FALSE,
                   !.checked = [n \in DOMAIN s.checked |->
                                  IF n \in Kinds THEN TRUE ELSE s.checked[n]],
                   !.templates = [k \in Kinds |-> [s.templates[k] EXCEPT
                                                     !.isAnimated = TRUE]]])

\* handleReset checking the checkboxes without unhiding the templates.
HandleReset_KeepsHidden(s) ==
  Render([s EXCEPT !.view = DefaultView,
                   !.frameNumber = 0,
                   !.sceneScale = 10,
                   !.isSceneAnimated = FALSE,
                   !.checked = [n \in DOMAIN s.checked |->
                                  IF n \in Kinds THEN TRUE ELSE s.checked[n]]])

\* inaccessible.handleReset
HandleReset(s) ==
  Render([s EXCEPT !.view = DefaultView,
                   !.frameNumber = 0,
                   !.sceneScale = 10,
                   !.isSceneAnimated = FALSE,
                   !.checked = [n \in DOMAIN s.checked |->
                                  IF n \in Kinds THEN TRUE ELSE s.checked[n]],
                   !.templates = [k \in Kinds |-> [s.templates[k] EXCEPT
                                                     !.isAnimated = TRUE]]])

\* handleSceneElementCheckboxChanges hiding the kind instead of toggling it.
HandleSceneElementCheckboxChanges_Hide(s, k) ==
  LET t == [s EXCEPT !.templates[k].isAnimated = FALSE]
  IN IF ~t.isSceneAnimated THEN Render(t) ELSE t

\* inaccessible.handleSceneElementCheckboxChanges, paramObject = templates[k]
HandleSceneElementCheckboxChanges(s, k) ==
  LET t == [s EXCEPT !.templates[k].isAnimated = ~@]
  IN IF ~t.isSceneAnimated THEN Render(t) ELSE t

\* handleLightSourceCheckboxChanges switching the light off instead of
\* toggling it.
HandleLightSourceCheckboxChanges_Off(s, i) ==
  LET t == [s EXCEPT !.enabled[i] = 0]
  IN IF ~t.isSceneAnimated THEN Render(t) ELSE t

\* inaccessible.handleLightSourceCheckboxChanges, paramObject = lightSourceData[i]
HandleLightSourceCheckboxChanges(s, i) ==
  LET t == [s EXCEPT !.enabled[i] = 1 - @]
  IN IF ~t.isSceneAnimated THEN Render(t) ELSE t

\* The callback given to the TrackballRotator in inaccessible.init.
RotatorCallback(s) == IF ~s.isSceneAnimated THEN Render(s) ELSE s

\* The wheel listener redrawing whether or not the scene is animated.
WheelListener_AlwaysRenders(s, sign) == Render([s EXCEPT !.sceneScale = @ + sign])

\* The wheel listener of inaccessible.init; sign is Math.sign(wheelDelta).
WheelListener(s, sign) ==
  LET t == [s EXCEPT !.sceneScale = @ + sign]
  IN IF ~t.isSceneAnimated THEN Render(t) ELSE t

\* inaccessible.init: the state it builds, then its first render.
InitState ==
  Render([isSceneAnimated |-> FALSE, frameNumber |-> 0, sceneScale |-> 10,
          templates |-> [k \in Kinds |-> [isAnimated |-> TRUE]],
          enabled |-> [i \in LightIds |-> 1],
          checked |-> [n \in Kinds \cup LightNames |-> TRUE],
          view |-> DefaultView, pending |-> 0, gl |-> InitGL, images |-> {},
          matrixStack |-> <<>>, ops |-> <<>>])

\* --------------------------------------------------------------- observers

\* The render passes a handler performed.
Passes(log) == {i \in 1..Len(log) : log[i].op = "render"}

NoReset == [isSceneAnimated |-> FALSE, frameNumber |-> 0, sceneScale |-> 10,
            hidden |-> 0, lightsOff |-> 0]

Hidden(s) == {k \in Kinds : ~s.templates[k].isAnimated}

LightsOff(s) == {i \in LightIds : s.enabled[i] = 0}

Before(s) ==
  [isSceneAnimated |-> s.isSceneAnimated, frameNumber |-> s.frameNumber,
   sceneScale |-> s.sceneScale, hidden |-> Cardinality(Hidden(s)),
   lightsOff |-> Cardinality(LightsOff(s))]

NoRun == [phase |-> "off", ticks |-> 0]

\* The run start, ticks, stop, reset from the initial state and nothing else.
RunAfter(ev) ==
  IF ev = "start" /\ e2e.phase = "init" THEN [phase |-> "started", ticks |-> 0]
  ELSE IF ev = "tick" /\ e2e.phase = "started" THEN [e2e EXCEPT !.ticks = @ + 1]
  ELSE IF ev = "stop" /\ e2e.phase = "started" THEN [e2e EXCEPT !.phase = "stopped"]
  ELSE IF ev = "reset" /\ e2e.phase = "stopped" THEN [e2e EXCEPT !.phase = "reset"]
  ELSE NoRun

NoToggle == [phase |-> "none", kind |-> "", base |-> <<>>, passes |-> 0]

\* The draw calls of the last render pass of a log.
LastCalls(log) == log[CHOOSE i \in Passes(log) : \A j \in Passes(log) : j <= i].calls

\* A toggle of kind k off right after a render pass made while Stopped, then
\* the toggle of k on as the very next event.
ToggleAfter(ev, k, s) ==
  IF ev = "shape" /\ ~isSceneAnimated /\ templates[k].isAnimated /\ Passes(ops) # {}
  THEN [phase |-> "off", kind |-> k, base |-> LastCalls(ops),
        passes |-> Cardinality(Passes(s.ops))]
  ELSE IF ev = "shape" /\ ~isSceneAnimated /\ tog.phase = "off" /\ tog.kind = k
  THEN [tog EXCEPT !.phase = "on", !.passes = @ + Cardinality(Passes(s.ops))]
  ELSE NoToggle

\* No render pass is in progress: every handler runs its pass to the end.
NoPass == [pc |-> "none"]

\* What of the scene state a render pass puts on the canvas.
SceneOf(s) ==
  [templates |-> s.templates, enabled |-> s.enabled, view |-> s.view,
   sceneScale |-> s.sceneScale]

\* The events by which the user changes the scene state.
ChangeEvents == {"shape", "light", "drag", "wheel"}

\* Where the scene shown on the canvas is followed (pc = "shown"), it is the
\* scene state of the last render pass made; changes counts the events by
\* which the user changed the scene state.  rendered tells whether the
\* handler of event ev made a render pass, scene is the scene state it left.
Observe(p, ev, rendered, scene) ==
  IF p.pc = "shown"
  THEN [p EXCEPT !.scene = IF rendered THEN scene ELSE @,
                 !.changes = IF ev \in ChangeEvents THEN @ + 1 ELSE @]
  ELSE p

\* ------------------------------------------------------------------ actions

\* The handler of event ev (about shape kind k, if any) ran and left state s.
Handled(ev, k, s) ==
  /\ isSceneAnimated' = s.isSceneAnimated
  /\ frameNumber' = s.frameNumber
  /\ sceneScale' = s.sceneScale
  /\ templates' = s.templates
  /\ enabled' = s.enabled
  /\ checked' = s.checked
  /\ view' = s.view
  /\ pending' = s.pending
  /\ gl' = s.gl
  /\ images' = s.images
  /\ matrixStack' = s.matrixStack
  /\ event' = ev
  /\ ops' = s.ops
  /\ resetFrom' = IF ev = "reset" THEN Before(Cur) ELSE NoReset
  /\ e2e' = RunAfter(ev)
  /\ tog' = ToggleAfter(ev, k, s)
  /\ pass' = Observe(pass, ev, Passes(ops') # {}, SceneOf(Cur'))

\* The program after inaccessible.init.
InitScene ==
  \E st \in {InitState} :
    /\ isSceneAnimated = st.isSceneAnimated
    /\ frameNumber = st.frameNumber
    /\ sceneScale = st.sceneScale
    /\ templates = st.templates
    /\ enabled = st.enabled
    /\ checked = st.checked
    /\ view = st.view
    /\ pending = st.pending
    /\ gl = st.gl
    /\ images = st.images
    /\ matrixStack = st.matrixStack
    /\ event = "init"
    /\ ops = st.ops
    /\ resetFrom = NoReset
    /\ e2e = [phase |-> "init", ticks |-> 0]
    /\ tog = NoToggle

Init == InitScene /\ pass = NoPass

\* The order in which the shape kinds join the set of kinds whose checkbox
\* the user operates: the kind of the sun's body, the other textured kind, the
\* wireframe kind, then the rest.
OperatedOrder ==
  <<"Sphere", "Ring", "Cylinder", "Tetrahedron", "Cube", "Pyramid", "Octahedron",
    "Dodecahedron", "Icosahedron", "Sierpinski">>

\* The kinds whose checkbox the user operates.
Operated == {OperatedOrder[i] : i \in {j \in 1..Len(OperatedOrder) : j <= MaxOperated}}

\* A click on "Start animation"; no frame is started beyond the cap.
StartButton(cap) ==
  /\ isSceneAnimated \/ (frameNumber < cap /\ pending < MaxPending)
  /\ Handled("start", "", HandleAnimationStart(Cur))

\* A click on "Stop animation".
StopButton == Handled("stop", "", HandleAnimationStop(Cur))

\* A click on "Reset model".
ResetButton == Handled("reset", "", HandleReset(Cur))

\* A click on the checkbox of a shape kind: the browser flips its checked
\* property, then runs the change listener.
ShapeCheckbox ==
  \E k \in Operated :
    Handled("shape", k,
            HandleSceneElementCheckboxChanges([Cur EXCEPT !.checked[k] = ~@], k))

\* A click on the checkbox of a light.
LightCheckbox ==
  \E i \in LightIds :
    Handled("light", "",
            HandleLightSourceCheckboxChanges(
              [Cur EXCEPT !.checked[LightName(i)] = ~@], i))

\* A drag on the canvas: the rotator takes a new orientation and calls back.
Drag ==
  \E v \in Views :
    Handled("drag", "", RotatorCallback([Cur EXCEPT !.view = v]))

\* A wheel event on the canvas.
Wheel ==
  \E sign \in {-1, 0, 1} :
    /\ sceneScale + sign - 10 \in -MaxZoomSteps..MaxZoomSteps
    /\ Handled("wheel", "", WheelListener(Cur, sign))

\* The browser runs one requested animation frame callback.
AnimationFrame(cap) ==
  /\ pending > 0
  /\ isSceneAnimated => frameNumber < cap
  /\ Handled("tick", "", HandleFrame([Cur EXCEPT !.pending = @ - 1]))

Next ==
  \/ StartButton(MaxFrame)
  \/ StopButton
  \/ ResetButton
  \/ ShapeCheckbox
  \/ LightCheckbox
  \/ Drag
  \/ Wheel
  \/ AnimationFrame(MaxFrame)

Spec == Init /\ [][Next]_vars

\* The frame driver alone, with room for the end-to-end run.
NextRun ==
  \/ StartButton(MaxFrameRun)
  \/ StopButton
  \/ ResetButton
  \/ AnimationFrame(MaxFrameRun)

SpecRun == Init /\ [][NextRun]_vars

\* A click on "Start animation" that the user may make while callbacks
\* requested by an earlier run are still outstanding.
StartButtonLoop ==
  /\ isSceneAnimated \/ (frameNumber < MaxFrameLoop /\ pending < MaxLoops)
  /\ Handled("start", "", HandleAnimationStart(Cur))

\* The frame driver with every interleaving of start, stop, reset and ticks.
NextLoop ==
  \/ StartButtonLoop
  \/ StopButton
  \/ ResetButton
  \/ AnimationFrame(MaxFrameLoop)

SpecLoop == Init /\ [][NextLoop]_vars

\* The program with the scene shown on the canvas followed, and with the
\* browser running every animation frame callback that was requested.
InitLive ==
  /\ InitScene
  /\ pass = [pc |-> "shown", scene |-> SceneOf(Cur), changes |-> 0]

\* The user changes the scene state at most MaxChanges times.
NextLive ==
  \/ StartButton(MaxFrame)
  \/ StopButton
  \/ ResetButton
  \/ AnimationFrame(MaxFrame)
  \/ pass.changes < MaxChanges /\ ShapeCheckbox
  \/ pass.changes < MaxChanges /\ LightCheckbox
  \/ pass.changes < MaxChanges /\ Drag
  \/ pass.changes < MaxChanges /\ Wheel

\* The steps of AnimationFrame(MaxFrame) as they show on the event, the frame
\* counter and the outstanding callbacks: handleFrame runs a frame and
\* requests the next while Running, and does nothing while Stopped.
TickStep ==
  /\ pending > 0
  /\ isSceneAnimated => frameNumber < MaxFrame
  /\ event' = "tick"
  /\ IF isSceneAnimated
     THEN frameNumber' = frameNumber + 1 /\ pending' = pending
     ELSE frameNumber' = frameNumber /\ pending' = pending - 1

\* The browser runs every animation frame callback that was requested.
SpecLive == InitLive /\ [][NextLive]_vars /\ WF_<<event, frameNumber, pending>>(TickStep)

\* Whether the double that the program holds where the model holds n (tenths
\* for sceneScale, hundredths for a scale factor) is certainly zero or
\* negative.  The additions of 0.1 and -0.1 leave a rounding error below
\* 1e-15: below 0 the double is negative; at 0 it is within 2e-16 of zero, of
\* either sign (1.39e-16 after ten notches straight down from 1).
NotPositive(n) == n < 0

\* A wheel event on the canvas, with the wheel turned down as far as
\* MaxZoomOut notches below 1.
WheelFar ==
  \E sign \in {-1, 0, 1} :
    /\ sceneScale + sign - 10 \in -MaxZoomOut..MaxZoomSteps
    /\ Handled("wheel", "", WheelListener(Cur, sign))

\* The wheel in either state of the frame driver.
NextZoom ==
  \/ WheelFar
  \/ StartButton(MaxFrame)
  \/ StopButton
  \/ AnimationFrame(MaxFrame)

SpecZoom == Init /\ [][NextZoom]_vars

\* ------------------------------------------------- the light configuration

\* The program over a lightSourceData of `declared` entries, with the enabled
\* flags en: init runs initGL, then every pass assembles the declared lights
\* one by one (next is the entry assembleLights is at), and a light's
\* checkbox flips its flag and starts the next pass.  rejected tells whether
\* the configuration was refused; nothing in init, initGL or assembleLights
\* looks at the number of entries.
InitConfig ==
  /\ InitScene
  /\ \E n \in 1..MaxLights : \E en \in [0..(n - 1) -> {0, 1}] :
       pass = [pc |-> "config", stage |-> "declared", declared |-> n, en |-> en,
               next |-> 0, rejected |-> FALSE,
               ps |-> PassStart(Cur, ZeroUniforms, <<>>)]

\* inaccessible.init: initGL sets the defaults of each declared light.
ConfigInitGL ==
  /\ pass.pc = "config"
  /\ pass.stage = "declared"
  /\ pass' = [pass EXCEPT !.stage = "initialised",
                          !.ps = PassStart(Cur, InitGLWith(pass.declared), <<>>)]
  /\ UNCHANGED <<isSceneAnimated, frameNumber, sceneScale, templates, enabled,
                 checked, view, pending, gl, images, matrixStack, event, ops,
                 resetFrom, e2e, tog>>

\* One iteration of the loop of assembleLights over the declared lights.
ConfigLight ==
  /\ pass.pc = "config"
  /\ pass.stage = "initialised"
  /\ pass.next < pass.declared
  /\ pass' = [pass EXCEPT !.ps = AssembleLight(@, pass.next, pass.en),
                          !.next = @ + 1]
  /\ UNCHANGED <<isSceneAnimated, frameNumber, sceneScale, templates, enabled,
                 checked, view, pending, gl, images, matrixStack, event, ops,
                 resetFrom, e2e, tog>>

\* The checkbox of a declared light, once the lights of a pass are assembled.
ConfigToggle ==
  /\ pass.pc = "config"
  /\ pass.stage = "initialised"
  /\ pass.next = pass.declared
  /\ \E i \in DOMAIN pass.en :
       pass' = [pass EXCEPT !.en[i] = 1 - @, !.next = 0,
                            !.ps = PassStart([Cur EXCEPT !.images = pass.ps.images],
                                             pass.ps.gl, pass.ps.matrixStack)]
  /\ UNCHANGED <<isSceneAnimated, frameNumber, sceneScale, templates, enabled,
                 checked, view, pending, gl, images, matrixStack, event, ops,
                 resetFrom, e2e, tog>>

NextConfig == ConfigInitGL \/ ConfigLight \/ ConfigToggle

SpecConfig == InitConfig /\ [][NextConfig]_vars

\* ------------------------------------------------- an error in a render pass

\* inaccessible.handleFrame when the render pass it runs raises an error,
\* before the pass drew anything or after it drew the scene: handleFrame and
\* its callers catch nothing, so the error leaves handleFrame before the next
\* frame is requested.
HandleFrameThrowing(s, drawn) ==
  IF s.isSceneAnimated
  THEN LET t == Log([s EXCEPT !.frameNumber = @ + 1], "inc", <<>>, "")
       IN Log(IF drawn THEN Render(t) ELSE t, "throw", <<>>, "")
  ELSE s

\* The browser runs a requested animation frame callback, whose render pass
\* raises an error.
AnimationFrameThrows(cap) ==
  /\ pending > 0
  /\ isSceneAnimated
  /\ frameNumber < cap
  /\ \E drawn \in BOOLEAN :
       Handled("tick", "", HandleFrameThrowing([Cur EXCEPT !.pending = @ - 1], drawn))

\* The frame driver with render passes that may raise an error.
NextFault ==
  \/ StartButton(MaxFrameRun)
  \/ StopButton
  \/ ResetButton
  \/ AnimationFrame(MaxFrameRun)
  \/ AnimationFrameThrows(MaxFrameRun)

SpecFault == Init /\ [][NextFault]_vars

\* ------------------------------------------------------- the image loads

\* The load of an image completes and its onload callback runs.  Every
\* textured draw starts a load of its own, so other loads of the same address
\* may remain in flight.  Spec leaves the loads in flight; SpecTexture lets
\* them complete between the handlers that redraw while Stopped.
ImageLoaded ==
  \E address \in images : \E rest \in {images, images \ {address}} :
    Handled("load", "", [Cur EXCEPT !.gl = ImageOnload(@, address),
                                    !.images = rest])

NextTexture == ImageLoaded \/ ShapeCheckbox \/ Drag \/ Wheel

SpecTexture == Init /\ [][NextTexture]_vars

\* ------------------------------------------------- a render pass, step by step

\* The siblings of a pass in the order inaccessible.render processes them:
\* the entries of lightSourceData, then the entries of sceneObjectsData.
NumLights == Cardinality(LightIds)

NumSiblings == NumLights + Len(sceneObjectsData)

\* render calling assembleScene before assembleLights.
NextSibling_Swapped(p) ==
  IF p.done >= Len(sceneObjectsData)
  THEN AssembleLight(p.ps, p.done - Len(sceneObjectsData), enabled)
  ELSE AssembleShape(p.ps, sceneObjectsData[p.done + 1], p.done + 1,
                     templates, frameNumber)

\* The pass state after the next sibling of the pass: one iteration of the
\* loop of assembleLights or of assembleScene.
NextSibling(p) ==
  IF p.done < NumLights
  THEN AssembleLight(p.ps, p.done, enabled)
  ELSE AssembleShape(p.ps, sceneObjectsData[p.done - NumLights + 1],
                     p.done - NumLights + 1, templates, frameNumber)

\* The scenes a pass is made over.  The first pass is the one of init, over
\* the initial scene and the uniforms of initGL; a later pass starts from the
\* uniforms an earlier pass left, over any visibility flags, enabled flags
\* and frame counter the handlers can have set.
InitPass ==
  /\ isSceneAnimated = FALSE
  /\ sceneScale = 10
  /\ view = DefaultView
  /\ pending = 0
  /\ matrixStack = <<>>
  /\ event = "init"
  /\ ops = <<>>
  /\ resetFrom = NoReset
  /\ e2e = NoRun
  /\ tog = NoToggle
  /\ \/ /\ gl = InitGL
        /\ images = {}
        /\ frameNumber = 0
        /\ templates = [k \in Kinds |-> [isAnimated |-> TRUE]]
        /\ enabled = [i \in LightIds |-> 1]
     \/ /\ gl = InitState.gl
        /\ images = InitState.images
        /\ frameNumber \in 0..MaxFrame
        /\ templates \in [Kinds -> {[isAnimated |-> TRUE], [isAnimated |-> FALSE]}]
        /\ enabled \in [LightIds -> {0, 1}]
  /\ checked = [n \in Kinds \cup LightNames |->
                 IF n \in Kinds THEN templates[n].isAnimated
                 ELSE \E i \in LightIds : LightName(i) = n /\ enabled[i] = 1]
  /\ pass = [pc |-> "render", done |-> 0, ps |-> PassStart(Cur, gl, matrixStack)]

\* The pass processes its next sibling.
PassSibling ==
  /\ pass.pc = "render"
  /\ pass.done < NumSiblings
  /\ pass' = [pass EXCEPT !.done = @ + 1, !.ps = NextSibling(pass)]
  /\ UNCHANGED <<isSceneAnimated, frameNumber, sceneScale, templates, enabled,
                 checked, view, pending, gl, images, matrixStack, event, ops,
                 resetFrom, e2e, tog>>

\* render returns: the pass leaves its uniforms, images and stack behind.
PassEnd ==
  /\ pass.pc = "render"
  /\ pass.done = NumSiblings
  /\ gl' = pass.ps.gl
  /\ images' = pass.ps.images
  /\ matrixStack' = pass.ps.matrixStack
  /\ event' = "pass"
  /\ ops' = << Op("render", pass.ps.calls, "") >>
  /\ pass' = [pass EXCEPT !.pc = "rendered"]
  /\ UNCHANGED <<isSceneAnimated, frameNumber, sceneScale, templates, enabled,
                 checked, view, pending, resetFrom, e2e, tog>>

NextPass == PassSibling \/ PassEnd

SpecPass == InitPass /\ [][NextPass]_vars

\* ------------------------------------------------- the transform stack alone

\* The transformations an exercise of the stack composes into the matrix.
Composable == {Xf("translate", 0, <<1, 0, 0>>), Xf("rotateY", 5, <<0, 0, 0>>)}

\* The stack is exercised from the start of a pass (empty stack) or from
\* within a sibling (one matrix pushed): pushes, then pops, with compositions
\* at any point.  stack0 is the stack at the start, base the matrix at the
\* first push, n and m count the
\* pushes and pops, composed the compositions, before is the matrix before
\* the last pop, thrown the error a call raised.
InitStack ==
  /\ InitScene
  /\ \E stack \in {<<>>, << PassStart(Cur, gl, <<>>).modelview >>} :
       pass = [pc |-> "stack", ps |-> PassStart(Cur, gl, stack), phase |-> "start",
               stack0 |-> stack, base |-> <<>>, n |-> 0, m |-> 0, composed |-> 0,
               before |-> <<>>, thrown |-> ""]

\* pushMatrix()
StackPush ==
  /\ pass.pc = "stack"
  /\ pass.phase \in {"start", "push"}
  /\ pass.n < MaxPushes
  /\ pass' = [pass EXCEPT !.ps = PushMatrix(@), !.phase = "push", !.n = @ + 1,
                          !.base = IF pass.n = 0 THEN pass.ps.modelview ELSE @]
  /\ UNCHANGED <<isSceneAnimated, frameNumber, sceneScale, templates, enabled,
                 checked, view, pending, gl, images, matrixStack, event, ops,
                 resetFrom, e2e, tog>>

\* mat4[f](modelview, modelview, ...): a composition in place, before the
\* last pop of the exercise.
StackCompose ==
  /\ pass.pc = "stack"
  /\ pass.phase \in {"start", "push"} \/ (pass.phase = "pop" /\ pass.m < pass.n)
  /\ pass.composed < MaxComposed
  /\ \E t \in Composable :
       pass' = [pass EXCEPT !.ps = Compose(@, t.f, t.a, t.v), !.composed = @ + 1]
  /\ UNCHANGED <<isSceneAnimated, frameNumber, sceneScale, templates, enabled,
                 checked, view, pending, gl, images, matrixStack, event, ops,
                 resetFrom, e2e, tog>>

\* popMatrix() of a matrix this exercise pushed.
StackPop ==
  /\ pass.pc = "stack"
  /\ pass.phase \in {"push", "pop"}
  /\ pass.m < pass.n
  /\ pass' = [pass EXCEPT !.ps = PopMatrix(@), !.phase = "pop", !.m = @ + 1,
                          !.before = pass.ps.modelview]
  /\ UNCHANGED <<isSceneAnimated, frameNumber, sceneScale, templates, enabled,
                 checked, view, pending, gl, images, matrixStack, event, ops,
                 resetFrom, e2e, tog>>

\* popMatrix() on the empty stack.  The code raises nothing; the matrix it
\* leaves is not one mat4 can work on, which ends the exercise.
StackUnderflow ==
  /\ pass.pc = "stack"
  /\ pass.phase \in {"start", "pop"}
  /\ pass.ps.matrixStack = <<>>
  /\ pass' = [pass EXCEPT !.ps = PopMatrix(@), !.phase = "underflow",
                          !.before = pass.ps.modelview]
  /\ UNCHANGED <<isSceneAnimated, frameNumber, sceneScale, templates, enabled,
                 checked, view, pending, gl, images, matrixStack, event, ops,
                 resetFrom, e2e, tog>>

NextStack == StackPush \/ StackCompose \/ StackPop \/ StackUnderflow

SpecStack == InitStack /\ [][NextStack]_vars

\* ------------------------------------------------- colours bound to uniforms

\* The channel values of the colour arrays bound, in hundredths.
Channels == {0, 50, 100}

\* The colour arrays: RGB and RGBA.
ColorArrays == [1..3 -> Channels] \cup [1..4 -> Channels]

\* A colour array is bound to a 3-component uniform once, from the uniforms
\* of initGL: value is the array, route the code that binds it (none yet),
\* bound the value the uniform holds after it.
InitColor ==
  /\ InitScene
  /\ \E value \in ColorArrays :
       pass = [pc |-> "color", value |-> value, route |-> "none", bound |-> <<>>]

\* The light branch of handleDefinitionOfUniform: the color of light i.
ColorToLight ==
  /\ pass.pc = "color"
  /\ pass.route = "none"
  /\ \E i \in LightIds :
       pass' = [pass EXCEPT
                  !.route = "light",
                  !.bound = HandleDefinitionOfUniform(
                              InitGL, [color |-> pass.value], "color", i
                            ).u_lights[i].color]
  /\ UNCHANGED <<isSceneAnimated, frameNumber, sceneScale, templates, enabled,
                 checked, view, pending, gl, images, matrixStack, event, ops,
                 resetFrom, e2e, tog>>

\* The material branch of handleDefinitionOfUniform: specularColor or
\* emissiveColor.
ColorToMaterial ==
  /\ pass.pc = "color"
  /\ pass.route = "none"
  /\ \E property \in {"specularColor", "emissiveColor"} :
       pass' = [pass EXCEPT
                  !.route = "material",
                  !.bound = HandleDefinitionOfUniform(
                              InitGL, [c \in {property} |-> pass.value], property,
                              NoCounter
                            ).u_material[property]]
  /\ UNCHANGED <<isSceneAnimated, frameNumber, sceneScale, templates, enabled,
                 checked, view, pending, gl, images, matrixStack, event, ops,
                 resetFrom, e2e, tog>>

\* The specularColor override of assembleScene: the first shape of the scene
\* declares the array and is drawn with it.
ColorToOverride ==
  /\ pass.pc = "color"
  /\ pass.route = "none"
  /\ pass' = [pass EXCEPT
                !.route = "override",
                !.bound = AssembleShape(
                            PassStart(Cur, InitGL, <<>>),
                            [sceneObjectsData[1] EXCEPT
                               !.materialUniforms.specularColor = pass.value],
                            1, templates, frameNumber
                          ).calls[1].specularColor]
  /\ UNCHANGED <<isSceneAnimated, frameNumber, sceneScale, templates, enabled,
                 checked, view, pending, gl, images, matrixStack, event, ops,
                 resetFrom, e2e, tog>>

NextColor == ColorToLight \/ ColorToMaterial \/ ColorToOverride

SpecColor == InitColor /\ [][NextColor]_vars

\* ------------------------------------------------------------------ claims

\* The names of the entries of a log, in order.
OpNames(log) == [i \in 1..Len(log) |-> log[i].op]

\* The draws of the shapes (not of a light's body) among the draw calls.
ShapeCalls(calls) == {i \in 1..Len(calls) : calls[i].src = "shape"}

\* C1: a frame run while Running (a scheduled tick, or the frame that start
\* itself runs) adds exactly 1 to the frame counter, then performs exactly one
\* render pass, which already draws with the new counter, then requests
\* exactly one next tick.
C1_FrameIncrementsRendersRequests ==
  [][(\/ event' = "tick" /\ isSceneAnimated
      \/ event' = "start" /\ ~isSceneAnimated)
     => /\ frameNumber' = frameNumber + 1
        /\ OpNames(ops') = <<"inc", "render", "raf">>
        /\ \A i \in ShapeCalls(ops'[2].calls) :
             ops'[2].calls[i].modelview[3] = Xf("rotate", -(frameNumber + 1), <<0, 1, 0>>)
        /\ pending' = IF event' = "tick" THEN pending ELSE pending + 1]_vars

C1_Witness ==
  /\ event = "tick"
  /\ isSceneAnimated
  /\ OpNames(ops) = <<"inc", "render", "raf">>
  /\ frameNumber = 2
  /\ ShapeCalls(ops[2].calls) # {}

\* C2: start while Running only raises the AlreadyRunning notice: the frame
\* counter, the Running state and the pending ticks are unchanged, and there
\* is no render pass and no tick request.
C2_StartWhileRunning ==
  [][(event' = "start" /\ isSceneAnimated)
     => /\ ops' = << Op("alert", <<>>, START_BUTTON_ERROR) >>
        /\ isSceneAnimated'
        /\ UNCHANGED <<frameNumber, pending>>]_vars

C2_Witness ==
  /\ event = "start"
  /\ OpNames(ops) = <<"alert">>
  /\ isSceneAnimated
  /\ pending > 0

\* C3: stop while Stopped only raises the NotRunning notice and changes none
\* of the state, frame counter, zoom factor and flags; stop while Running
\* moves to Stopped.
C3_Stop ==
  [][event' = "stop"
     => IF isSceneAnimated
        THEN ~isSceneAnimated' /\ ops' = <<>>
        ELSE /\ ops' = << Op("alert", <<>>, STOP_BUTTON_ERROR) >>
             /\ ~isSceneAnimated'
             /\ UNCHANGED <<frameNumber, sceneScale, templates, enabled, checked>>]_vars

C3_Witness ==
  /\ event = "stop"
  /\ OpNames(ops) = <<"alert">>
  /\ ~isSceneAnimated
  /\ frameNumber > 0

\* C4: right after Reset the system is Stopped, the frame counter is 0 and the
\* zoom factor is 1, whatever the state before.
C4_ResetStopsAndZeroes ==
  event = "reset" => ~isSceneAnimated /\ frameNumber = 0 /\ sceneScale = 10

C4_Witness ==
  /\ event = "reset"
  /\ resetFrom.isSceneAnimated
  /\ resetFrom.frameNumber > 0
  /\ resetFrom.sceneScale # 10

\* C5: right after Reset every template's isAnimated is true.
C5_ResetShowsEveryKind ==
  event = "reset" => \A k \in Kinds : templates[k].isAnimated

C5_Witness == event = "reset" /\ resetFrom.hidden > 0

\* C6: right after Reset the enabled flag of every light is 1.
C6_ResetEnablesLights ==
  event = "reset" => \A i \in LightIds : enabled[i] = 1

\* C7 as stated: start, 10 ticks, stop from the initial state leaves the frame
\* counter at 10 and the state Stopped; a Reset after it sets the counter to 0.
C7_Original ==
  /\ (e2e.phase = "stopped" /\ e2e.ticks = 10)
       => (frameNumber = 10 /\ ~isSceneAnimated)
  /\ (e2e.phase = "reset" /\ e2e.ticks = 10) => frameNumber = 0

\* C7 amended: start, 10 ticks, stop from the initial state leaves the frame
\* counter at 11 (start runs the first frame itself, each tick one more) and
\* the state Stopped; a Reset after it sets the counter to 0.
C7_Amended ==
  /\ (e2e.phase = "stopped" /\ e2e.ticks = 10)
       => (frameNumber = 11 /\ ~isSceneAnimated)
  /\ (e2e.phase = "reset" /\ e2e.ticks = 10)
       => (frameNumber = 0 /\ ~isSceneAnimated)

C7_Witness == e2e.phase = "reset" /\ e2e.ticks = 10

\* C8: a manual redraw event (shape checkbox, light checkbox, camera drag,
\* wheel) performs exactly one render pass when Stopped and none when Running,
\* and nothing else.
C8_ManualRedraw ==
  event \in {"shape", "light", "drag", "wheel"}
    => OpNames(ops) = IF isSceneAnimated THEN <<>> ELSE <<"render">>

C8_Witness ==
  /\ event = "wheel"
  /\ isSceneAnimated
  /\ sceneScale # 10
  /\ ops = <<>>

\* C9: while Stopped, toggling a kind off and then on performs exactly two
\* render passes, and the second issues the same sequence of draw calls as
\* the pass made just before the first toggle.
C9_ToggleOffOn ==
  tog.phase = "on" => tog.passes = 2 /\ LastCalls(ops) = tog.base

C9_Witness ==
  /\ tog.phase = "on"
  /\ tog.kind = "Sphere"
  /\ frameNumber > 0
  /\ Len(tog.base) = 1 + Len(sceneObjectsData)

\* C10: no draw call of a render pass references the template of a kind whose
\* visibility flag is false, the body of a light included.
C10_HiddenKindNeverDrawn ==
  \A i \in Passes(ops) :
    \A j \in 1..Len(ops[i].calls) : templates[ops[i].calls[j].kind].isAnimated

\* Whether sibling number n (from 0) of a pass is a shape entry whose kind is
\* hidden, which assembleScene skips.
SkippedSibling(n) ==
  /\ n >= NumLights
  /\ ~templates[sceneObjectsData[n - NumLights + 1].shapeType].isAnimated

\* C11: every sibling of a render pass (a light, a shape, a shape skipped
\* because its kind is hidden) leaves the transform stack as it found it,
\* with exactly one push and one pop if it is processed and none if it is
\* skipped, every draw is issued one level deep, and the stack is empty when
\* the pass ends, whatever the visibility flags.
C11_StackBalanced ==
  [][/\ (pass.pc = "render" /\ pass'.pc = "render")
        => /\ pass'.ps.matrixStack = pass.ps.matrixStack
           /\ pass.ps.matrixStack = <<>>
           /\ pass'.ps.pushed - pass.ps.pushed
                = (IF SkippedSibling(pass.done) THEN 0 ELSE 1)
           /\ pass'.ps.popped - pass.ps.popped
                = (IF SkippedSibling(pass.done) THEN 0 ELSE 1)
           /\ \A j \in 1..Len(pass'.ps.calls) : pass'.ps.calls[j].depth = 1
     /\ pass'.pc = "rendered"
        => matrixStack' = <<>> /\ pass'.ps.pushed = pass'.ps.popped]_vars

C11_Witness ==
  /\ pass.pc = "rendered"
  /\ matrixStack = <<>>
  /\ {k \in Kinds : ~templates[k].isAnimated} = {"Cube", "Ring"}
  /\ pass.ps.pushed = NumSiblings - 2
  /\ Len(pass.ps.calls) = NumSiblings - 3

\* C12: after N pushes followed by N pops, with compositions in place at any
\* point in between, the matrix is the one before the first push, and the
\* stack holds what it held before.
C12_PushPopRoundTrip ==
  (pass.pc = "stack" /\ pass.phase = "pop" /\ pass.m = pass.n)
    => /\ pass.ps.modelview = pass.base
       /\ pass.ps.matrixStack = pass.stack0

C12_Witness ==
  /\ pass.pc = "stack"
  /\ pass.phase = "pop"
  /\ pass.n = MaxPushes
  /\ pass.m = pass.n
  /\ pass.composed = MaxComposed
  /\ pass.before # pass.base
  /\ pass.ps.matrixStack # <<>>

\* C13: popMatrix on the empty stack fails with a StackUnderflow error and
\* leaves the matrix as it was.
C13_PopOnEmptyFails ==
  (pass.pc = "stack" /\ pass.phase = "underflow")
    => pass.thrown = "StackUnderflow" /\ pass.ps.modelview = pass.before

\* The shape entries (by index) of the kinds that are visible.
VisibleShapes ==
  {i \in 1..Len(sceneObjectsData) : templates[sceneObjectsData[i].shapeType].isAnimated}

AxisRotation(key) ==
  IF key = "x" THEN "rotateX" ELSE IF key = "y" THEN "rotateY" ELSE "rotateZ"

\* C15: at frame counter F every drawn shape is drawn with the matrix of the
\* pass composed with, in this order, a rotation of -F degrees about the
\* vertical axis, its translate, a rotation of F * rate degrees about each
\* axis its rotate map declares (and none about another axis), its scale.
C15_ShapeTransformations ==
  pass.pc \in {"render", "rendered"} =>
    \A j \in ShapeCalls(pass.ps.calls) :
      LET c == pass.ps.calls[j]
          t == sceneObjectsData[c.idx].transformations
      IN c.modelview
           = PassStart(Cur, gl, matrixStack).modelview
             \o << Xf("rotate", -frameNumber, <<0, 1, 0>>),
                   Xf("translate", 0, t.translate) >>
             \o [a \in 1..Len(t.rotate) |->
                   Xf(AxisRotation(t.rotate[a][1]), frameNumber * t.rotate[a][2],
                      <<0, 0, 0>>)]
             \o << Xf("scale", 0, t.scale) >>

C15_Witness ==
  /\ pass.pc = "rendered"
  /\ frameNumber = 2
  /\ \E j \in ShapeCalls(pass.ps.calls) :
       /\ pass.ps.calls[j].kind = "Dodecahedron"
       /\ Len(pass.ps.calls[j].modelview) = 8
       /\ pass.ps.calls[j].modelview[5] = Xf("rotateX", -4, <<0, 0, 0>>)
       /\ pass.ps.calls[j].modelview[7] = Xf("rotateZ", -4, <<0, 0, 0>>)

\* The material uniforms that an instance may override and the code resets.
OverridableMaterial == {"specularColor", "specularExponent", "emissiveColor"}

\* C16: whenever an instance of a pass begins its own setup, and when the
\* pass ends, specularColor, specularExponent and emissiveColor hold the
\* defaults that initGL set; and an instance is drawn with the default of each
\* of these that its own materialUniforms does not declare.
C16_MaterialDefaultsRestored ==
  pass.pc \in {"render", "rendered"} =>
    /\ \A key \in OverridableMaterial :
         /\ pass.ps.gl.u_material[key] = InitGL.u_material[key]
         /\ gl.u_material[key] = InitGL.u_material[key]
    /\ \A j \in 1..Len(pass.ps.calls) :
         LET c == pass.ps.calls[j]
             own == IF c.src = "light"
                    THEN lightSourceData(c.idx, enabled).materialUniforms
                    ELSE sceneObjectsData[c.idx].materialUniforms
         IN \A key \in OverridableMaterial :
              c[key] = IF key \in DOMAIN own
                       THEN (IF key = "specularExponent" THEN own[key]
                             ELSE Slice(own[key], 3))
                       ELSE InitGL.u_material[key]

C16_Witness ==
  /\ pass.pc = "render"
  /\ pass.done = NumLights + 2
  /\ Len(pass.ps.calls) = 3
  /\ pass.ps.calls[1].emissiveColor = Slice(YELLOW, 3)
  /\ pass.ps.calls[2].specularExponent = 32
  /\ pass.ps.calls[3].specularColor = Slice(WHITE, 3)
  /\ pass.ps.gl.u_material.specularExponent = DefaultMaterial.specularExponent

\* The configuration object a draw call was issued for.
ConfigOf(c) ==
  IF c.src = "light" THEN lightSourceData(c.idx, enabled) ELSE sceneObjectsData[c.idx]

\* Whether a configuration object declares a texture.
DeclaresTexture(config) == "texture" \in DOMAIN config /\ config.texture # NoTexture

\* C17: the sibling that issues a draw call writes the use-texture flag for
\* that draw: 1, leaving the diffuse colour uniform as it was, when the
\* instance declares a texture; 0, with the diffuse colour uniform set to the
\* instance's own colour, when it declares none, whatever the flag was after
\* the instance drawn before.
C17_UseTexturePerInstance ==
  [][(/\ pass.pc = "render"
      /\ pass'.pc = "render"
      /\ Len(pass'.ps.calls) = Len(pass.ps.calls) + 1)
     => LET c == pass'.ps.calls[Len(pass'.ps.calls)]
        IN IF DeclaresTexture(ConfigOf(c))
           THEN /\ c.useTexture = 1
                /\ pass'.ps.gl.u_useTexture = 1
                /\ pass'.ps.gl.u_material.diffuseColor
                     = pass.ps.gl.u_material.diffuseColor
           ELSE /\ c.useTexture = 0
                /\ pass'.ps.gl.u_useTexture = 0
                /\ c.diffuse = ConfigOf(c).shapeColor
                /\ pass'.ps.gl.u_material.diffuseColor = ConfigOf(c).shapeColor]_vars

C17_Witness ==
  /\ pass.pc = "render"
  /\ Len(pass.ps.calls) >= 2
  /\ LET n == Len(pass.ps.calls)
     IN /\ pass.ps.calls[n - 1].useTexture = 1
        /\ pass.ps.calls[n].useTexture = 0
        /\ pass.ps.calls[n].diffuse = GOLD
        /\ pass.ps.calls[n - 1].kind = "Sphere"
        /\ pass.ps.calls[n - 1].src = "light"

\* The textured draws of a render pass sample the colour uploaded by their
\* own call of handleTextureLoading, whatever loads completed before.
C20_AlwaysPlaceholder ==
  \A i \in Passes(ops) :
    \A j \in 1..Len(ops[i].calls) :
      ops[i].calls[j].useTexture = 1
        => ops[i].calls[j].sampled = ColorTexture(ConvertColorToUint8Array(WHITE))

\* C20: once the load of an instance's image has completed, so that the
\* texture bound to TEXTURE_2D holds that image, the render pass that follows
\* draws the instance sampling the loaded image and not the placeholder.
C20_LoadedImageIsDrawn ==
  [][(gl.texture2D.kind = "image" /\ Passes(ops') # {})
     => \A j \in 1..Len(LastCalls(ops')) :
          LET c == LastCalls(ops')[j]
          IN (DeclaresTexture(ConfigOf(c)) /\ ConfigOf(c).texture = gl.texture2D.image)
               => c.sampled = ImageTexture(ConfigOf(c).texture)]_vars

\* C19: an error raised by the render pass of a tick does not halt the loop:
\* while the frame driver is Running a next tick is requested, so it is never
\* Running with no tick pending (where start only raises AlreadyRunning).
C19_ErrorKeepsLoopRunning ==
  isSceneAnimated => pending > 0

\* C18: a light configuration that declares more lights than the shader has
\* is rejected when the program is initialised, and so never runs with the
\* lights beyond the shader's dropped.
C18_TooManyLightsRejected ==
  (pass.pc = "config" /\ pass.stage = "initialised" /\ pass.declared > NumLights)
    => pass.rejected

\* C21: a colour array of length 3 or 4 bound to a 3-component uniform, by
\* the light branch or the material branch of handleDefinitionOfUniform or by
\* the specularColor override of assembleScene, leaves the uniform holding
\* exactly its first three channels.
C21_FirstThreeChannelsBound ==
  (pass.pc = "color" /\ pass.route # "none")
    => pass.bound = SubSeq(pass.value, 1, 3)

\* The same for the arrays that carry an alpha, and for the arrays without
\* one on the routes other than the material branch.
C21_HoldsElsewhere ==
  (pass.pc = "color" /\ pass.route # "none"
     /\ (Len(pass.value) = 4 \/ pass.route # "material"))
    => pass.bound = SubSeq(pass.value, 1, 3)

\* The position a light declares, or the default of initGL when it declares
\* none.
DeclaredPosition(light) ==
  IF "position" \in DOMAIN light.lightsUniforms
  THEN light.lightsUniforms.position
  ELSE DefaultLights.position

\* The matrix that is current in a pass once light i's own transformations
\* are composed.
MatrixAtLight(i) ==
  LightTransformations(PassStart(Cur, gl, matrixStack),
                       lightSourceData(i, enabled), LightTransformKeys(i)).modelview

\* C22 as stated: a render pass leaves the position uniform of every light,
\* with or without a body, equal to the light's position transformed into eye
\* space by the matrix current after the light's own transformations.
C22_Original ==
  pass.pc = "rendered" =>
    \A i \in LightIds :
      pass.ps.gl.u_lights[i].position
        = TransformMat4(DeclaredPosition(lightSourceData(i, enabled)), MatrixAtLight(i))

\* C22 amended: a render pass leaves the position uniform of every light that
\* has a body equal to the light's declared position transformed into eye
\* space by the matrix current after the light's own transformations; the
\* position uniform of a light without a body (the viewpoint light) is the
\* vector written for it as it is, never transformed by the pass.
C22_Amended ==
  pass.pc = "rendered" =>
    \A i \in LightIds :
      LET light == lightSourceData(i, enabled)
      IN pass.ps.gl.u_lights[i].position
           = IF "shapeType" \in DOMAIN light /\ "shapeColor" \in DOMAIN light
             THEN TransformMat4(DeclaredPosition(light), MatrixAtLight(i))
             ELSE RawPosition(DeclaredPosition(light))

C22_Witness ==
  /\ pass.pc = "rendered"
  /\ frameNumber > 0
  /\ pass.ps.gl.u_lights[0].position
       = [v |-> <<0, 0, 0, 1>>, mv |-> << Xf(view, 0, <<0, 0, 0>>) >>, eye |-> TRUE]
  /\ pass.ps.gl.u_lights[1].position = RawPosition(<<0, 0, 1, 0>>)
  /\ Len(MatrixAtLight(0)) = 4

\* C23: a tick that fires while Stopped is a no-op: it does not increment the
\* frame counter, performs no render pass and requests no successor; and
\* while Stopped the frame counter is changed by no event other than a start
\* command (or a Reset, which sets it to 0).
C23_NoTickAfterStop ==
  [][/\ (event' = "tick" /\ ~isSceneAnimated)
        => /\ ops' = <<>>
           /\ frameNumber' = frameNumber
           /\ pending' = pending - 1
           /\ ~isSceneAnimated'
     /\ (~isSceneAnimated /\ event' \notin {"start", "reset"})
        => frameNumber' = frameNumber]_vars

C23_Witness ==
  /\ event = "tick"
  /\ ~isSceneAnimated
  /\ ops = <<>>
  /\ frameNumber > 1
  /\ pending = 0

\* C24: Reset issued while Running performs exactly one render pass, requests
\* no tick and leaves the driver Stopped at frame 0; from then on the frame
\* counter stays 0 and the driver Stopped until a start command, whatever
\* ticks requested before the reset fire in between.
C24_ResetWhileRunning ==
  [][/\ (event' = "reset" /\ isSceneAnimated)
        => /\ OpNames(ops') = <<"render">>
           /\ ~isSceneAnimated'
           /\ frameNumber' = 0
           /\ pending' = pending
     /\ (event = "reset" /\ event' = "tick")
        => ops' = <<>> /\ pending' = pending - 1
     /\ (~isSceneAnimated /\ frameNumber = 0 /\ event' # "start")
        => ~isSceneAnimated' /\ frameNumber' = 0]_vars

C24_Witness ==
  /\ event = "reset"
  /\ resetFrom.isSceneAnimated
  /\ resetFrom.frameNumber > 1
  /\ pending > 0
  /\ frameNumber = 0

\* C26: at most one tick callback is pending at any time.
C26_OneTickPending == pending <= 1

\* The canvas shows a scene state other than the current one.
C25_Stale == pass.pc = "shown" /\ pass.scene # SceneOf(Cur)

\* The frame cap of the model is reached while Running: no further frame runs.
C25_AtCap == isSceneAnimated /\ frameNumber >= MaxFrame

\* C25: a change of the scene state made while Running is eventually on the
\* canvas, whatever events follow it, a stop command before the next tick
\* included.
C25_ChangeEventuallyRendered ==
  (C25_Stale /\ isSceneAnimated /\ ~C25_AtCap) ~> (~C25_Stale \/ C25_AtCap)

\* The steps that TickStep tells are those of AnimationFrame.
C25_TickStepIsAnimationFrame ==
  [][(event' = "tick" <=> TickStep)
     /\ (TickStep => <<event, frameNumber, pending>>' # <<event, frameNumber, pending>>)]_vars

\* As long as the driver stays Running the change does reach the canvas.
C25_RenderedWhileRunning ==
  (C25_Stale /\ isSceneAnimated /\ ~C25_AtCap)
    ~> (~C25_Stale \/ C25_AtCap \/ ~isSceneAnimated)

\* C27: every draw call of a render pass, the draw of a light's body
\* included, is issued with the enabled uniform of each light equal to the
\* current enabled flag of that light.
C27_DrawnUnderCurrentFlags ==
  pass.pc \in {"render", "rendered"} =>
    \A j \in 1..Len(pass.ps.calls) :
      \A i \in LightIds : pass.ps.lit[j][i].enabled = enabled[i]

\* C28: a render pass creates no texture object (and starts no image load)
\* for an instance that the pass before it already drew, so that the texture
\* objects created over a run number at most the textured instances.
C28_NoTexturePerPass ==
  [][(Passes(ops) # {} /\ Passes(ops') # {})
     => \A j \in 1..Len(LastCalls(ops')) : \A k \in 1..Len(LastCalls(ops)) :
          LET c == LastCalls(ops')[j]
              b == LastCalls(ops)[k]
          IN (c.src = b.src /\ c.idx = b.idx) => c.created = 0]_vars

\* C29: sceneScale is strictly positive in every reachable state, and no
\* render pass scales the scene by a factor that is zero or negative.
C29_ZoomPositive ==
  /\ ~NotPositive(sceneScale)
  /\ \A i \in Passes(ops) : \A j \in 1..Len(ops[i].calls) :
       \A a \in 1..3 : ~NotPositive(ops[i].calls[j].modelview[2].v[a])

\* C30: in every reachable state the checkbox of a shape kind is checked
\* exactly when that template's isAnimated is true, and the checkbox of a
\* light is checked exactly when that light's enabled flag is 1.
C30_CheckboxesMatchFlags ==
  /\ \A k \in Kinds : checked[k] = templates[k].isAnimated
  /\ \A i \in LightIds : checked[LightName(i)] = (enabled[i] = 1)

C30_Witness ==
  /\ event = "reset"
  /\ resetFrom.hidden > 0
  /\ resetFrom.lightsOff = 1
  /\ enabled[1] = 0
  /\ ~checked[LightName(1)]
  /\ checked[LightName(0)]
  /\ \A k \in Kinds : checked[k]

====
